---- MODULE Spec2Model ----
(***************************************************************************)
(* Model of MCPInteractiveHTTPClient (src/http_client.py): the scoped      *)
(* open/close of the transport channel and the protocol session, the       *)
(* handshake / listing / call requests, and the interactive loop of run()  *)
(* with its tool selection and schema-driven argument prompting.           *)
(*                                                                         *)
(* Text (operator input) is a sequence of one-character strings.  The      *)
(* collaborators (transport context, ClientSession, server, stdin) are the *)
(* environment: each of their answers is a nondeterministic choice.  A     *)
(* failing collaborator raises an Exception-derived error, named by a      *)
(* string; "none" means no error.                                          *)
(***************************************************************************)
EXTENDS Integers, Sequences, FiniteSets, TLC

VARIABLES
    transport,    \* self.transport
    body,         \* the program: "run" (example.py), "api" (it calls the
                  \* methods in the block), "reuse" (it keeps using the
                  \* client after the block), "unit" (choose_tool alone)
    pc,           \* position of the caller: new, body, exiting, done
    ctx,          \* self._ctx: "None" or "set"
    session,      \* self._session: "None" or "set"
    chanOpen,     \* number of transport channels opened by the provider
    chanClose,    \* number of close attempts on the transport context
    sessEnter,    \* number of protocol sessions entered
    closeLog,     \* close attempts of __aexit__, in order, with their result
    hs,           \* handshake state of the protocol session
    sent,         \* requests sent to the server, in order
    inflight,     \* the tools/call request the client is awaiting, or NoReq
    lastErr,      \* error raised by the most recent client method
    lastResult,   \* value a call method returned to the program (run()
                  \* discards it)
    bodyErr,      \* error that left the scoped block's body
    outcome,      \* what the caller of the scoped block receives
    exitRaised,   \* error raised by __aexit__ itself
    exits,        \* number of times __aexit__ ran
    rpc,          \* position inside run()
    tools,        \* run(): the tool listing
    chosen_tool,  \* run(): the tool selected in this iteration; NoTool
                  \* once the iteration's call has returned
    arguments,    \* prompt_arguments_for_tool(): the map being built, then
                  \* run()'s arguments until the iteration's call returned
    propIdx,      \* prompt_arguments_for_tool(): position in schema_props
    stdin_line,   \* the raw line input() returned into choice, value_str
                  \* or again; <<>> once that local is dead
    apc,          \* api body: the call method awaiting a response
    pair,         \* what call_tool and call_tool_by_name did on the same
                  \* name, arguments and server answer
    printed,      \* the message print() wrote to the console last
    logged        \* the log record written last

vars == <<transport, body, pc, ctx, session, chanOpen, chanClose, sessEnter,
          closeLog, hs, sent, inflight, lastErr, lastResult, bodyErr, outcome,
          exitRaised, exits, rpc, tools, chosen_tool, arguments, propIdx,
          stdin_line, apc, printed, logged, pair>>

----------------------------------------------------------------------------
(* Bounds *)

\* longest request log; the sending actions stop at this length
MaxSent == 4

\* how many times __aexit__ is called on one client
MaxExits == 2

\* longest request log of a program that keeps the client after the block
MaxReuseSent == 1

----------------------------------------------------------------------------
(* Text *)

LowerLetters == <<"a", "b", "c", "e", "f", "h", "i", "l", "m", "n", "o", "r",
                  "s", "t", "u", "x", "y">>
UpperLetters == <<"A", "B", "C", "E", "F", "H", "I", "L", "M", "N", "O", "R",
                  "S", "T", "U", "X", "Y">>
Digits == <<"0", "1", "2", "3", "4", "5", "6", "7", "8", "9">>
Whitespace == {" ", "\t"}

\* str.lower() on one character
LowerChar(c) ==
    IF \E i \in 1..Len(UpperLetters) : UpperLetters[i] = c
    THEN LowerLetters[CHOOSE i \in 1..Len(UpperLetters) : UpperLetters[i] = c]
    ELSE c

\* str.upper() on one character
UpperChar(c) ==
    IF \E i \in 1..Len(LowerLetters) : LowerLetters[i] = c
    THEN UpperLetters[CHOOSE i \in 1..Len(LowerLetters) : LowerLetters[i] = c]
    ELSE c

\* str.lower()
Lower(s) == [i \in 1..Len(s) |-> LowerChar(s[i])]

RECURSIVE LStrip(_)
LStrip(s) ==
    IF s # <<>> /\ Head(s) \in Whitespace THEN LStrip(Tail(s)) ELSE s

RECURSIVE RStrip(_)
RStrip(s) ==
    IF s # <<>> /\ s[Len(s)] \in Whitespace
    THEN RStrip(SubSeq(s, 1, Len(s) - 1))
    ELSE s

\* str.strip()
Strip(s) == RStrip(LStrip(s))

IsDigit(c) == \E i \in 1..Len(Digits) : Digits[i] = c
DigitVal(c) == (CHOOSE i \in 1..Len(Digits) : Digits[i] = c) - 1

\* digits with single underscores between them, as int() accepts
RECURSIVE DigitsOk(_)
DigitsOk(s) ==
    IF s = <<>> THEN FALSE
    ELSE IF ~IsDigit(Head(s)) THEN FALSE
    ELSE IF Len(s) = 1 THEN TRUE
    ELSE IF s[2] = "_" THEN DigitsOk(SubSeq(s, 3, Len(s)))
    ELSE DigitsOk(Tail(s))

RECURSIVE DigitsVal(_, _)
DigitsVal(s, acc) ==
    IF s = <<>> THEN acc
    ELSE IF Head(s) = "_" THEN DigitsVal(Tail(s), acc)
    ELSE DigitsVal(Tail(s), 10 * acc + DigitVal(Head(s)))

\* int(text): [ok |-> FALSE] stands for ValueError
PyInt(text) ==
    LET s == Strip(text)
        signed == s # <<>> /\ Head(s) \in {"+", "-"}
        digs == IF signed THEN Tail(s) ELSE s
    IN  IF DigitsOk(digs)
        THEN [ok |-> TRUE,
              val |-> IF signed /\ Head(s) = "-"
                      THEN 0 - DigitsVal(digs, 0)
                      ELSE DigitsVal(digs, 0)]
        ELSE [ok |-> FALSE, val |-> 0]

----------------------------------------------------------------------------
(* Values, tools and the operator's input *)

\* a typed argument value; every value has the same shape
StrVal(s) == [kind |-> "str", b |-> FALSE, i |-> 0, s |-> s]
IntVal(n) == [kind |-> "int", b |-> FALSE, i |-> n, s |-> <<>>]
BoolVal(v) == [kind |-> "bool", b |-> v, i |-> 0, s |-> <<>>]

\* the empty dict {}
EmptyMap == [k \in {} |-> StrVal(<<>>)]

\* dict[key] = value
Put(m, key, value) ==
    [k \in DOMAIN m \cup {key} |-> IF k = key THEN value ELSE m[k]]

\* types.Tool: name, inputSchema["properties"] in declared order with each
\* property's "type", and inputSchema["required"]
Tool(name, props, required) ==
    [name |-> name, props |-> props, required |-> required]
Prop(name, type) == [name |-> name, type |-> type]

\* Optional[types.Tool] = None
NoTool == Tool("<None>", <<>>, {})

Echo == Tool("echo", <<Prop("msg", "string")>>, {"msg"})
Add == Tool("add", <<Prop("a", "integer"), Prop("b", "integer")>>,
            {"a", "ghost"})
Flag == Tool("flag", <<Prop("on", "boolean"), Prop("force", "boolean")>>,
             {"force"})
Ping == Tool("ping", <<>>, {"x"})
Noop == Tool("noop", <<>>, {})

\* the listings the server answers tools/list with
Listings == {<<>>, <<Echo>>, <<Noop>>, <<Add, Flag, Ping>>}

TruthyTokens == {<<"t", "r", "u", "e">>, <<"1">>, <<"y", "e", "s">>, <<"y">>}
FalsyTokens == {<<"f", "a", "l", "s", "e">>, <<"0">>, <<"n", "o">>, <<"n">>}

\* every spelling of tok in upper and lower case letters
RECURSIVE CaseVariants(_)
CaseVariants(tok) ==
    IF tok = <<>> THEN {<<>>}
    ELSE {<<c>> \o r : c \in {LowerChar(Head(tok)), UpperChar(Head(tok))},
                       r \in CaseVariants(Tail(tok))}

BooleanTexts == UNION {CaseVariants(t) : t \in TruthyTokens \cup FalsyTokens}

OtherTexts ==
    { <<>>, <<" ">>, <<" ", "\t">>,
      <<"2">>, <<"3">>, <<"4">>, <<"0", "3">>, <<"1", "2">>,
      <<"+", "2">>, <<"-", "1">>, <<"-", "0">>, <<" ", "2", " ">>,
      <<"1", "_", "0">>, <<"1", "_">>, <<"_", "1">>, <<"1", "_", "_", "0">>,
      <<"1", ".", "5">>, <<"1", ".", "0">>, <<"0", "x", "1">>, <<"+">>,
      <<"-", "-", "1">>, <<"1", " ", "2">>,
      <<"a", "b", "c">>, <<"h", "i">>, <<"m", "a", "y", "b", "e">>,
      <<"t", "r", "u">>, <<"y", " ">>, <<" ", "N", "O">>, <<"n", "o", "n">>,
      <<"o", "n">>, <<"t">>, <<"f">>, <<"y", "e", "s", "!">> }

\* the lines the operator types
InputTexts == BooleanTexts \cup OtherTexts

\* end of standard input: input() raises EOFError
EOF == <<"<EOF>">>
Inputs == InputTexts \cup {EOF}

----------------------------------------------------------------------------
(* choose_tool and _parse_schema_value *)

\* a log record: level, message and the error it reports
Log(level, msg, cause) == [level |-> level, msg |-> msg, cause |-> cause]
NoLog == Log("none", "none", "none")

\* seq[k] with Python's zero-based index, negative k counting from the end
PyIndex(seq, k) == IF k >= 0 THEN seq[k + 1] ELSE seq[Len(seq) + k + 1]

\* an index test that also lets 0 through
InRangeFromZero(idx, n) == 0 <= idx /\ idx <= n

\* 1 <= idx <= len(tools)
InRange(idx, n) == 1 <= idx /\ idx <= n

\* choose_tool(tools) when the operator types raw: the tool or NoTool;
\* prompted tells whether input() was called; raised is the error leaving
\* it; log is the last log record afterwards
choose_tool(tls, raw) ==
    IF tls = <<>>
    THEN [tool |-> NoTool, prompted |-> FALSE, raised |-> "none",
          log |-> logged]
    ELSE IF raw = EOF
    THEN [tool |-> NoTool, prompted |-> TRUE, raised |-> "EOFError",
          log |-> logged]
    ELSE LET choice == Strip(raw)
             idx == PyInt(choice)
         IN  IF idx.ok /\ InRange(idx.val, Len(tls))
             THEN [tool |-> PyIndex(tls, idx.val - 1), prompted |-> TRUE,
                   raised |-> "none",
                   log |-> Log("INFO", "User selected tool", "none")]
             ELSE [tool |-> NoTool, prompted |-> TRUE, raised |-> "none",
                   log |-> IF idx.ok THEN logged
                           ELSE Log("WARNING",
                                    "User entered invalid tool index",
                                    "none")]

\* a parser that takes every unrecognised boolean token for false
ParseLenientBoolean(prop_type, value_str) ==
    IF prop_type = "boolean"
    THEN [ok |-> TRUE, val |-> BoolVal(Lower(value_str) \in TruthyTokens)]
    ELSE LET n == PyInt(value_str)
         IN  IF prop_type = "integer" THEN [ok |-> n.ok, val |-> IntVal(n.val)]
             ELSE [ok |-> TRUE, val |-> StrVal(value_str)]

\* _parse_schema_value for the types the listings declare:
\* [ok |-> FALSE] stands for ValueError
_parse_schema_value(prop_type, value_str) ==
    IF prop_type = "integer"
    THEN LET n == PyInt(value_str)
         IN  [ok |-> n.ok, val |-> IntVal(n.val)]
    ELSE IF prop_type = "boolean"
    THEN LET lower == Lower(value_str)
         IN  IF lower \in TruthyTokens THEN [ok |-> TRUE, val |-> BoolVal(TRUE)]
             ELSE IF lower \in FalsyTokens
                  THEN [ok |-> TRUE, val |-> BoolVal(FALSE)]
             ELSE [ok |-> FALSE, val |-> BoolVal(FALSE)]
    ELSE [ok |-> TRUE, val |-> StrVal(value_str)]

\* empty input that ends the prompt of the property, required or not
OnEmptyAlwaysBreak(is_required) == "break"

\* empty input: a required property is asked again, an optional one ends
OnEmpty(is_required) == IF is_required THEN "continue" ELSE "break"

\* an optional property left empty is stored as the empty string
SkipOptionalStoresEmpty(args, name) == Put(args, name, StrVal(<<>>))

\* optional & empty -> do not set
SkipOptional(args, name) == args

\* an invalid value that ends the prompt of the property
OnInvalidBreaks == "break"

\* except ValueError: print, log, continue
OnInvalid == "continue"

\* one pass of the while-loop of prompt_arguments_for_tool for property prop
\* when the operator types raw: the map afterwards and what the loop does
\* next: "continue" (ask again), "break" (property finished), "raise"
\* is_required = prop_name in required
IsRequiredIgnored(name, required) == FALSE

IsRequired(name, required) == name \in required

prompt_input(prop, required, args, raw) ==
    IF raw = EOF
    THEN [arguments |-> args, next |-> "raise", print |-> printed,
          log |-> logged]
    ELSE LET value_str == Strip(raw)
             is_required == IsRequired(prop.name, required)
             value == _parse_schema_value(prop.type, value_str)
         IN  IF value_str = <<>>
             THEN [arguments |-> IF is_required THEN args
                                 ELSE SkipOptional(args, prop.name),
                   next |-> OnEmpty(is_required),
                   print |-> IF is_required THEN "This field is required."
                             ELSE printed,
                   log |-> IF is_required
                           THEN Log("WARNING", "Required field left empty",
                                    "none")
                           ELSE logged]
             ELSE IF ~value.ok
             THEN [arguments |-> args, next |-> OnInvalid,
                   print |-> "ValueError message",
                   log |-> Log("WARNING", "Invalid value", "ValueError")]
             ELSE [arguments |-> Put(args, prop.name, value.val),
                   next |-> "break", print |-> printed, log |-> logged]

\* an invalid selection that ends the loop
SelectNextBreaks(tool) == IF tool = NoTool THEN "returned" ELSE "args"

\* if chosen_tool is None: continue
SelectNext(tool) == IF tool = NoTool THEN "select" ELSE "args"

\* a failed call after which the loop goes on
AfterCallContinues(err) == "again"

\* except Exception around the loop body: log and break
AfterCall(err) == IF err = "none" THEN "again" ELSE "returned"

\* again in ("n", "no", "")
StopsLoopCaseSensitive(raw) == Strip(raw) \in {<<"n">>, <<"n", "o">>, <<>>}

StopsLoop(raw) == Lower(Strip(raw)) \in {<<"n">>, <<"n", "o">>, <<>>}

----------------------------------------------------------------------------
(* Requests and responses *)

\* an entry of the request log: the operation, whether the handshake had
\* completed when it was sent, and whether the client had been closed
Req(op) == [op |-> op, ready |-> hs = "Ready", closed |-> exits > 0]

NoReq == [name |-> "<none>", arguments |-> EmptyMap]
CallReq(name, args) == [name |-> name, arguments |-> args]

\* answers of the server to tools/list
ListResponses ==
    {[ok |-> FALSE, tools |-> <<>>]} \cup {[ok |-> TRUE, tools |-> l] : l \in Listings}

\* answers of the server to tools/call: call_result.model_dump(mode="json")
NoResult == "<none>"
ResultDicts == {"result_a", "result_b"}
CallResponses ==
    {[ok |-> FALSE, result |-> NoResult]}
    \cup {[ok |-> TRUE, result |-> r] : r \in ResultDicts}

\* arguments a program passes to the call methods directly
ApiArguments == {EmptyMap, Put(EmptyMap, "msg", StrVal(<<"h", "i">>))}
ApiTools == {Echo, Ping}

----------------------------------------------------------------------------
(* call_tool and call_tool_by_name as functions of their inputs *)

\* the texts a tool result holds
ResultTexts ==
    { <<>>, <<"o", "k">>, <<"a", "\n", "b">>, <<"c", ":", "\\", "n">>,
      <<"\"", "q", "\"">>, <<"\\">> }

\* answers of the server to tools/call whose result holds a text
TextResponses ==
    {[ok |-> FALSE, result |-> <<>>]}
    \cup {[ok |-> TRUE, result |-> r] : r \in ResultTexts}

\* json.dumps on one character of a string
JsonChar(c) ==
    IF c = "\n" THEN <<"\\", "n">>
    ELSE IF c = "\t" THEN <<"\\", "t">>
    ELSE IF c = "\\" THEN <<"\\", "\\">>
    ELSE IF c = "\"" THEN <<"\\", "\"">>
    ELSE <<c>>

RECURSIVE JsonEscape(_)
JsonEscape(s) == IF s = <<>> THEN <<>> ELSE JsonChar(Head(s)) \o JsonEscape(Tail(s))

\* json.dumps(result_dict, indent=2), for a result that holds one text
json_dumps(s) == <<"\"">> \o JsonEscape(s) \o <<"\"">>

\* result_json_str.replace("\\n", "\n"): backslash n becomes a line break
RECURSIVE UnescapeNewlines(_)
UnescapeNewlines(s) ==
    IF s = <<>> THEN <<>>
    ELSE IF Len(s) >= 2 /\ s[1] = "\\" /\ s[2] = "n"
    THEN <<"\n">> \o UnescapeNewlines(Tail(Tail(s)))
    ELSE <<Head(s)>> \o UnescapeNewlines(Tail(s))

\* result_final.replace("\\", ""): every backslash is dropped
StripBackslashes(s) == SelectSeq(s, LAMBDA c : c # "\\")

\* what one call method did: the error it raised, the request it sent, the
\* request log after it, the value it returned and what it printed
Outcome(err, request, log, result, console) ==
    [err |-> err, request |-> request, sent |-> log, result |-> result,
     console |-> console]

NoOutcome == Outcome("none", NoReq, <<>>, <<>>, <<>>)

\* one line of console output
Shown(what, text) == [what |-> what, text |-> text]

\* the value call_tool returns
ReturnsRendering(result_dict, result_final) == result_final

Returns(result_dict, result_final) == result_dict

\* call_tool(tool, arguments) when the server answers resp
call_tool(tool, args, resp) ==
    IF session = "None"
    THEN Outcome("RuntimeError", NoReq, sent, <<>>, <<>>)
    ELSE IF ~resp.ok
    THEN Outcome("CallError", CallReq(tool.name, args),
                 Append(sent, Req("tools/call")), <<>>,
                 <<Shown("arguments", <<>>)>>)
    ELSE LET result_dict == resp.result
             result_json_str == json_dumps(result_dict)
             result_final == StripBackslashes(UnescapeNewlines(result_json_str))
         IN  Outcome("none", CallReq(tool.name, args),
                     Append(sent, Req("tools/call")),
                     Returns(result_dict, result_final),
                     <<Shown("arguments", <<>>),
                       Shown("raw", result_json_str),
                       Shown("final", result_final)>>)

\* call_tool_by_name(name, arguments) when the server answers resp
call_tool_by_name(name, args, resp) ==
    IF session = "None"
    THEN Outcome("RuntimeError", NoReq, sent, <<>>, <<>>)
    ELSE IF ~resp.ok
    THEN Outcome("CallError", CallReq(name, args),
                 Append(sent, Req("tools/call")), <<>>, <<>>)
    ELSE Outcome("none", CallReq(name, args),
                 Append(sent, Req("tools/call")), resp.result, <<>>)

\* both methods applied to one name, one map and one answer
Pair(name, args, resp, interactive, by_name) ==
    [called |-> TRUE, name |-> name, arguments |-> args, resp |-> resp,
     interactive |-> interactive, by_name |-> by_name]

NoPair == [called |-> FALSE, name |-> "<none>", arguments |-> EmptyMap,
           resp |-> [ok |-> FALSE, result |-> <<>>],
           interactive |-> NoOutcome, by_name |-> NoOutcome]

----------------------------------------------------------------------------
(* Client methods *)

\* initialize(): the error it raises, the request log and the handshake
\* state afterwards, when the server answers ok
initialize(ok) ==
    IF session = "None"
    THEN [err |-> "RuntimeError", sent |-> sent, hs |-> hs, log |-> logged]
    ELSE [err |-> IF ok THEN "none" ELSE "InitializeError",
          sent |-> Append(sent, Req("initialize")),
          hs |-> IF ok THEN "Ready" ELSE hs,
          log |-> IF ok
                  THEN Log("INFO", "MCP session successfully initialized",
                           "none")
                  ELSE Log("ERROR", "Initialize failed", "InitializeError")]

\* list_tools() when the server answers resp
list_tools(resp) ==
    IF session = "None"
    THEN [err |-> "RuntimeError", sent |-> sent, tools |-> <<>>,
          log |-> logged]
    ELSE [err |-> IF resp.ok THEN "none" ELSE "ListError",
          sent |-> Append(sent, Req("tools/list")),
          tools |-> resp.tools,
          log |-> IF resp.ok THEN Log("INFO", "Received tools", "none")
                  ELSE Log("ERROR", "tools/list failed", "ListError")]

\* a call that sends an empty arguments map whatever was collected
call_send_no_arguments(name, args) ==
    IF session = "None"
    THEN [err |-> "RuntimeError", sent |-> sent, inflight |-> NoReq]
    ELSE [err |-> "none",
          sent |-> Append(sent, Req("tools/call")),
          inflight |-> CallReq(name, EmptyMap)]

\* call_tool() / call_tool_by_name() up to the await of session.call_tool
call_send(name, args) ==
    IF session = "None"
    THEN [err |-> "RuntimeError", sent |-> sent, inflight |-> NoReq]
    ELSE [err |-> "none",
          sent |-> Append(sent, Req("tools/call")),
          inflight |-> CallReq(name, args)]

\* call_tool() / call_tool_by_name() from the answer resp on
call_result(resp) ==
    IF resp.ok THEN [err |-> "none", result |-> resp.result]
    ELSE [err |-> "CallError", result |-> NoResult]

----------------------------------------------------------------------------
(* Scoped open and close *)

\* an unknown transport that falls back to a default transport
OpensChannelByDefault(t) == TRUE

\* the branches of __aenter__ that open a transport context
OpensChannel(t) == t = "http" \/ t = "sse"

\* a handler that logs the error and raises it again
Reraise(err) == err

\* except Exception around the session close: logged, not re-raised
SwallowSessionError(err) == "none"

\* a handler that logs the close error and lets it leave __aexit__
RaiseTransportError(err) == err

\* except Exception around the transport close: logged, not re-raised
SwallowTransportError(err) == "none"

\* __aexit__ returns None: the error of the body is not suppressed
ExitSuppresses == FALSE

\* async with: what the caller receives after __aexit__ ran
WithOutcome(bodyE, exitE, suppress) ==
    IF exitE # "none" THEN exitE
    ELSE IF bodyE # "none" /\ ~suppress THEN bodyE
    ELSE "none"

CloseEntry(what, err) == [what |-> what, err |-> err]

\* the client after __init__, before the scoped block is entered
Constructed ==
    /\ transport \in {"http", "sse", "ws"}
    /\ pc = "new"
    /\ ctx = "None"
    /\ session = "None"
    /\ chanOpen = 0
    /\ chanClose = 0
    /\ sessEnter = 0
    /\ closeLog = <<>>
    /\ hs = "NotStarted"
    /\ sent = <<>>
    /\ inflight = NoReq
    /\ lastErr = "none"
    /\ lastResult = NoResult
    /\ bodyErr = "none"
    /\ outcome = "none"
    /\ exitRaised = "none"
    /\ exits = 0
    /\ rpc = "idle"
    /\ tools = <<>>
    /\ chosen_tool = NoTool
    /\ arguments = EmptyMap
    /\ propIdx = 0
    /\ stdin_line = <<>>
    /\ apc = "idle"
    /\ printed = "none"
    /\ logged = NoLog
    /\ pair = NoPair

Init == body \in {"run", "api", "reuse"} /\ Constructed

runVars == <<rpc, tools, chosen_tool, arguments, propIdx, stdin_line>>
closeVars == <<chanClose, closeLog, exitRaised, exits>>
openVars == <<ctx, session, chanOpen, sessEnter>>
ioVars == <<printed, logged>>

\* async with client: __aenter__
AEnter ==
    /\ pc = "new"
    /\ \E openOk \in BOOLEAN, enterOk \in BOOLEAN :
        IF OpensChannel(transport)
        THEN /\ ctx' = "set"
             /\ IF ~openOk
                THEN /\ outcome' = "ConnectionError"
                     /\ pc' = "done"
                     /\ UNCHANGED <<session, chanOpen, sessEnter>>
                ELSE /\ chanOpen' = chanOpen + 1
                     /\ session' = "set"
                     /\ IF enterOk
                        THEN /\ sessEnter' = sessEnter + 1
                             /\ pc' = "body"
                             /\ UNCHANGED outcome
                        ELSE /\ outcome' = "SessionEnterError"
                             /\ pc' = "done"
                             /\ UNCHANGED sessEnter
        ELSE /\ outcome' = "ValueError"
             /\ pc' = "done"
             /\ UNCHANGED openVars
    /\ logged' = IF pc' = "body"
                 THEN Log("INFO", "ClientSession successfully entered", "none")
                 ELSE Log("ERROR", "Failed to open interactive client",
                          outcome')
    /\ UNCHANGED <<pair, transport, body, closeVars, hs, sent, inflight, lastErr,
                   lastResult, bodyErr, runVars, apc, printed>>

\* __aexit__ when the session close ends with sErr and the transport
\* close with cErr: the close attempts, the log and the error it raises
aexit(sErr, cErr) ==
    LET sTried == session # "None"
        e1 == IF sTried THEN SwallowSessionError(sErr) ELSE "none"
        cTried == e1 = "none" /\ ctx # "None"
        e2 == IF e1 # "none" THEN e1
              ELSE IF cTried THEN SwallowTransportError(cErr)
              ELSE "none"
    IN  [closeLog |-> closeLog
            \o (IF sTried THEN <<CloseEntry("session", sErr)>> ELSE <<>>)
            \o (IF cTried THEN <<CloseEntry("channel", cErr)>> ELSE <<>>),
         chanClose |-> chanClose + (IF cTried THEN 1 ELSE 0),
         hs |-> IF sTried /\ sErr = "none" THEN "Closed" ELSE hs,
         raised |-> e2,
         log |-> IF cTried
                 THEN IF cErr = "none"
                      THEN Log("INFO", "Transport context closed", "none")
                      ELSE Log("ERROR",
                               "Error while closing transport context", cErr)
                 ELSE IF sTried
                 THEN IF sErr = "none"
                      THEN Log("INFO", "ClientSession closed", "none")
                      ELSE Log("ERROR", "Error while closing ClientSession",
                               sErr)
                 ELSE Log("INFO", "Closing interactive client", "none")]

\* the end of the scoped block: __aexit__
AExit ==
    /\ pc = "exiting"
    /\ \E sErr \in {"none", "SessionCloseError"},
          cErr \in {"none", "ChannelCloseError"} :
        LET r == aexit(sErr, cErr)
        IN  /\ closeLog' = r.closeLog
            /\ chanClose' = r.chanClose
            /\ hs' = r.hs
            /\ exitRaised' = r.raised
            /\ logged' = r.log
            /\ outcome' = WithOutcome(bodyErr, r.raised, ExitSuppresses)
    /\ exits' = exits + 1
    /\ pc' = "done"
    /\ UNCHANGED <<pair, transport, body, openVars, sent, inflight, lastErr,
                   lastResult, bodyErr, runVars, apc, printed>>

\* the program calls __aexit__ again on the client it has closed
CloseAgain ==
    /\ body = "reuse"
    /\ pc = "done"
    /\ exits >= 1
    /\ exits < MaxExits
    /\ \E sErr \in {"none", "SessionCloseError"},
          cErr \in {"none", "ChannelCloseError"} :
        LET r == aexit(sErr, cErr)
        IN  /\ closeLog' = r.closeLog
            /\ chanClose' = r.chanClose
            /\ hs' = r.hs
            /\ exitRaised' = r.raised
            /\ logged' = r.log
    /\ exits' = exits + 1
    /\ UNCHANGED <<pair, transport, body, pc, openVars, sent, inflight, lastErr,
                   lastResult, bodyErr, outcome, runVars, apc, printed>>

\* the body of the scoped block ends normally
BodyReturn ==
    /\ pc = "body"
    /\ IF body = "run" THEN rpc = "returned" ELSE apc = "idle"
    /\ pc' = "exiting"
    /\ UNCHANGED <<pair, transport, body, openVars, closeVars, hs, sent, inflight,
                   lastErr, lastResult, bodyErr, outcome, runVars, apc,
                   ioVars>>

----------------------------------------------------------------------------
(* A program that calls the client methods itself *)

\* a method called by the program raised err: inside the scoped block the
\* program either lets it leave the block or handles it
ApiRaise(err, propagate) ==
    IF err # "none" /\ pc = "body" /\ propagate
    THEN bodyErr' = err /\ pc' = "exiting"
    ELSE UNCHANGED <<bodyErr, pc>>

\* a program calls a public method: inside the scoped block or before it,
\* and a program that keeps the client ("reuse") also after the block
ApiEnabled ==
    /\ apc = "idle"
    /\ \/ /\ body = "api"
          /\ pc \in {"new", "body"}
          /\ Len(sent) < MaxSent
       \/ /\ body = "reuse"
          /\ pc \in {"new", "body"} \/ (pc = "done" /\ exits > 0)
          /\ Len(sent) < MaxReuseSent

ApiInitialize ==
    /\ ApiEnabled
    /\ \E ok \in BOOLEAN, propagate \in BOOLEAN :
        LET r == initialize(ok)
        IN  /\ sent' = r.sent
            /\ hs' = r.hs
            /\ lastErr' = r.err
            /\ logged' = r.log
            /\ ApiRaise(r.err, propagate)
    /\ UNCHANGED <<pair, transport, body, openVars, closeVars, inflight, lastResult,
                   outcome, runVars, apc, printed>>

ApiListTools ==
    /\ ApiEnabled
    /\ \E resp \in ListResponses, propagate \in BOOLEAN :
        LET r == list_tools(resp)
        IN  /\ sent' = r.sent
            /\ lastErr' = r.err
            /\ logged' = r.log
            /\ ApiRaise(r.err, propagate)
    /\ UNCHANGED <<pair, transport, body, openVars, closeVars, hs, inflight,
                   lastResult, outcome, runVars, apc, printed>>

\* call_tool(tool, arguments) up to the await
ApiCallTool ==
    /\ ApiEnabled
    /\ \E tool \in ApiTools, args \in ApiArguments, propagate \in BOOLEAN :
        LET r == call_send(tool.name, args)
        IN  /\ sent' = r.sent
            /\ inflight' = r.inflight
            /\ lastErr' = r.err
            /\ apc' = IF r.err = "none" THEN "call_tool" ELSE "idle"
            /\ logged' = IF r.err = "none"
                         THEN Log("INFO", "Calling tool", "none") ELSE logged
            /\ printed' = IF r.err = "none" THEN "Calling tool" ELSE printed
            /\ ApiRaise(r.err, propagate)
    /\ UNCHANGED <<pair, transport, body, openVars, closeVars, hs, lastResult,
                   outcome, runVars>>

\* call_tool_by_name(name, arguments) up to the await
ApiCallToolByName ==
    /\ ApiEnabled
    /\ \E tool \in ApiTools, args \in ApiArguments, propagate \in BOOLEAN :
        LET r == call_send(tool.name, args)
        IN  /\ sent' = r.sent
            /\ inflight' = r.inflight
            /\ lastErr' = r.err
            /\ apc' = IF r.err = "none" THEN "call_tool_by_name" ELSE "idle"
            /\ logged' = IF r.err = "none"
                         THEN Log("INFO", "Calling tool by name", "none")
                         ELSE logged
            /\ ApiRaise(r.err, propagate)
    /\ UNCHANGED <<pair, transport, body, openVars, closeVars, hs, lastResult,
                   outcome, runVars, printed>>

\* the answer to the awaited tools/call arrives
ApiCallResult ==
    /\ body \in {"api", "reuse"}
    /\ pc \in {"body", "done"}
    /\ apc # "idle"
    /\ \E resp \in CallResponses, propagate \in BOOLEAN :
        LET r == call_result(resp)
        IN  /\ lastErr' = r.err
            /\ lastResult' = r.result
            /\ logged' = IF r.err = "none" THEN logged
                         ELSE IF apc = "call_tool"
                         THEN Log("ERROR", "Tool call failed", r.err)
                         ELSE Log("ERROR", "Non-interactive tool call failed",
                                  r.err)
            /\ printed' = IF r.err = "none" /\ apc = "call_tool"
                          THEN "FINAL RESULT" ELSE printed
            /\ ApiRaise(r.err, propagate)
    /\ inflight' = NoReq
    /\ apc' = "idle"
    /\ UNCHANGED <<pair, transport, body, openVars, closeVars, hs, sent, outcome,
                   runVars>>

----------------------------------------------------------------------------
(* run() *)

RunAt(pos) == body = "run" /\ pc = "body" /\ rpc = pos

\* the record run() logs when initialize() or list_tools() raised
StartFailed(cause) == Log("ERROR", "Failed to start interactive loop", cause)

\* the record run() logs when an iteration of its loop raised
CallFailedUnlogged(cause) == NoLog

CallFailed(cause) == Log("ERROR", "Error during interactive tool call", cause)

\* where run() goes after the listing: it ends on an empty one
AfterListingAlwaysSelects(tls) == "select"

AfterListing(tls) == IF tls = <<>> THEN "returned" ELSE "select"

\* the schema of the tool declares no properties
NoPropertiesNorRequired(tool) == tool.props = <<>> /\ tool.required = {}

NoProperties(tool) == tool.props = <<>>

\* await self.initialize()
RunInitialize ==
    /\ RunAt("idle")
    /\ \E ok \in BOOLEAN :
        LET r == initialize(ok)
        IN  /\ sent' = r.sent
            /\ hs' = r.hs
            /\ lastErr' = r.err
            /\ rpc' = IF r.err = "none" THEN "list" ELSE "returned"
            /\ logged' = IF r.err = "none" THEN r.log ELSE StartFailed(r.err)
    /\ UNCHANGED <<pair, transport, body, pc, openVars, closeVars, inflight,
                   lastResult, bodyErr, outcome, tools, chosen_tool, arguments,
                   propIdx, stdin_line, apc, printed>>

\* tools = await self.list_tools(), and the test for an empty listing
RunListTools ==
    /\ RunAt("list")
    /\ \E resp \in ListResponses :
        LET r == list_tools(resp)
        IN  /\ sent' = r.sent
            /\ lastErr' = r.err
            /\ IF r.err # "none"
               THEN /\ rpc' = "returned"
                    /\ logged' = StartFailed(r.err)
                    /\ UNCHANGED <<tools, printed>>
               ELSE /\ tools' = r.tools
                    /\ rpc' = AfterListing(r.tools)
                    /\ IF AfterListing(r.tools) = "returned"
                       THEN /\ printed' = "No tools available."
                            /\ logged' = Log("WARNING",
                                             "Server returned no tools",
                                             "none")
                       ELSE logged' = r.log /\ UNCHANGED printed
    /\ UNCHANGED <<pair, transport, body, pc, openVars, closeVars, hs, inflight,
                   lastResult, bodyErr, outcome, chosen_tool, arguments,
                   propIdx, stdin_line, apc>>

\* chosen_tool = self.choose_tool(tools)
RunSelect ==
    /\ RunAt("select")
    /\ \E raw \in Inputs :
        LET r == choose_tool(tools, raw)
        IN  /\ stdin_line' = raw
            /\ lastErr' = r.raised
            /\ IF r.raised # "none"
               THEN /\ rpc' = "returned"
                    /\ logged' = CallFailed(r.raised)
                    /\ UNCHANGED chosen_tool
               ELSE /\ chosen_tool' = r.tool
                    /\ rpc' = SelectNext(r.tool)
                    /\ logged' = r.log
    /\ printed' = "Available tools"
    /\ UNCHANGED <<pair, transport, body, pc, openVars, closeVars, hs, sent,
                   inflight, lastResult, bodyErr, outcome, tools, arguments,
                   propIdx, apc>>

\* prompt_arguments_for_tool(chosen_tool) up to the first prompt
RunPromptStart ==
    /\ RunAt("args")
    /\ arguments' = EmptyMap
    /\ IF NoProperties(chosen_tool)
       THEN /\ rpc' = "call"
            /\ printed' = "no schema provided"
            /\ logged' = Log("INFO", "Tool has no input schema", "none")
            /\ UNCHANGED propIdx
       ELSE /\ rpc' = "prompt"
            /\ propIdx' = 1
            /\ printed' = "argument schema"
            /\ UNCHANGED logged
    /\ stdin_line' = <<>>
    /\ UNCHANGED <<pair, transport, body, pc, openVars, closeVars, hs, sent,
                   inflight, lastErr, lastResult, bodyErr, outcome, tools,
                   chosen_tool, apc>>

\* one input() of prompt_arguments_for_tool
RunPromptInput ==
    /\ RunAt("prompt")
    /\ \E raw \in Inputs :
        LET r == prompt_input(chosen_tool.props[propIdx],
                              chosen_tool.required, arguments, raw)
        IN  /\ stdin_line' = raw
            /\ arguments' = r.arguments
            /\ lastErr' = IF r.next = "raise" THEN "EOFError" ELSE "none"
            /\ printed' = r.print
            /\ IF r.next = "raise"
               THEN /\ rpc' = "returned"
                    /\ logged' = CallFailed("EOFError")
                    /\ UNCHANGED propIdx
               ELSE IF r.next = "continue"
               THEN logged' = r.log /\ UNCHANGED <<rpc, propIdx>>
               ELSE IF propIdx < Len(chosen_tool.props)
               THEN /\ propIdx' = propIdx + 1
                    /\ logged' = r.log
                    /\ UNCHANGED rpc
               ELSE /\ rpc' = "call"
                    /\ logged' = Log("INFO", "Collected arguments", "none")
                    /\ UNCHANGED propIdx
    /\ UNCHANGED <<pair, transport, body, pc, openVars, closeVars, hs, sent,
                   inflight, lastResult, bodyErr, outcome, tools, chosen_tool,
                   apc>>

\* await self.call_tool(chosen_tool, arguments) up to the await
RunCall ==
    /\ RunAt("call")
    /\ Len(sent) < MaxSent
    /\ LET r == call_send(chosen_tool.name, arguments)
       IN  /\ sent' = r.sent
           /\ inflight' = r.inflight
           /\ lastErr' = r.err
           /\ rpc' = IF r.err = "none" THEN "calling" ELSE "returned"
           /\ logged' = IF r.err = "none"
                        THEN Log("INFO", "Calling tool", "none")
                        ELSE CallFailed(r.err)
           /\ printed' = IF r.err = "none" THEN "Calling tool" ELSE printed
    /\ stdin_line' = <<>>
    /\ UNCHANGED <<pair, transport, body, pc, openVars, closeVars, hs, lastResult,
                   bodyErr, outcome, tools, chosen_tool, arguments, propIdx,
                   apc>>

\* the answer to the awaited tools/call arrives
RunCallResult ==
    /\ RunAt("calling")
    /\ \E resp \in CallResponses :
        LET r == call_result(resp)
        IN  /\ lastErr' = r.err
            /\ rpc' = AfterCall(r.err)
            /\ logged' = IF r.err = "none" THEN logged ELSE CallFailed(r.err)
            /\ printed' = IF r.err = "none" THEN "FINAL RESULT" ELSE printed
    /\ inflight' = NoReq
    /\ chosen_tool' = NoTool
    /\ arguments' = EmptyMap
    /\ propIdx' = 0
    /\ UNCHANGED <<pair, transport, body, pc, openVars, closeVars, hs, sent,
                   lastResult, bodyErr, outcome, tools, stdin_line, apc>>

\* again = input("Call another tool? [y/n]: ")
RunAgain ==
    /\ RunAt("again")
    /\ \E raw \in Inputs :
        /\ stdin_line' = raw
        /\ IF raw = EOF
           THEN /\ lastErr' = "EOFError"
                /\ bodyErr' = "EOFError"
                /\ rpc' = "returned"
                /\ pc' = "exiting"
                /\ UNCHANGED logged
           ELSE /\ lastErr' = "none"
                /\ rpc' = IF StopsLoop(raw) THEN "returned" ELSE "select"
                /\ logged' = IF StopsLoop(raw)
                             THEN Log("INFO",
                                      "User chose to exit interactive loop",
                                      "none")
                             ELSE logged
                /\ UNCHANGED <<bodyErr, pc>>
    /\ UNCHANGED <<pair, transport, body, openVars, closeVars, hs, sent, inflight,
                   lastResult, outcome, tools, chosen_tool, arguments, propIdx,
                   apc, printed>>

----------------------------------------------------------------------------
(* A program that calls choose_tool on a list of its own *)

UnitChooseTool ==
    /\ body = "unit"
    /\ rpc = "idle"
    /\ \E tls \in Listings, raw \in Inputs :
        LET r == choose_tool(tls, raw)
        IN  /\ tools' = tls
            /\ stdin_line' = IF r.prompted THEN raw ELSE <<>>
            /\ chosen_tool' = r.tool
            /\ lastErr' = r.raised
            /\ logged' = r.log
            /\ printed' = IF r.prompted THEN "Available tools" ELSE printed
    /\ rpc' = "returned"
    /\ UNCHANGED <<pair, transport, body, pc, openVars, closeVars, hs, sent,
                   inflight, lastResult, bodyErr, outcome, arguments, propIdx,
                   apc>>

InitUnit == body = "unit" /\ Constructed

----------------------------------------------------------------------------
(* A program that compares call_tool with call_tool_by_name *)

\* both call methods on the same client state, tool, arguments and answer
PairCall ==
    /\ body = "pair"
    /\ pc \in {"new", "body"}
    /\ \E tool \in ApiTools, args \in ApiArguments, resp \in TextResponses :
        pair' = Pair(tool.name, args, resp,
                     call_tool(tool, args, resp),
                     call_tool_by_name(tool.name, args, resp))
    /\ UNCHANGED <<transport, body, pc, openVars, closeVars, hs, sent,
                   inflight, lastErr, lastResult, bodyErr, outcome, runVars,
                   apc, ioVars>>

InitPair == body = "pair" /\ Constructed

NextPair == AEnter \/ PairCall

SpecPair == InitPair /\ [][NextPair]_vars

NextUnit == UnitChooseTool

SpecUnit == InitUnit /\ [][NextUnit]_vars

----------------------------------------------------------------------------

Next ==
    \/ AEnter
    \/ AExit
    \/ CloseAgain
    \/ BodyReturn
    \/ ApiInitialize
    \/ ApiListTools
    \/ ApiCallTool
    \/ ApiCallToolByName
    \/ ApiCallResult
    \/ RunInitialize
    \/ RunListTools
    \/ RunSelect
    \/ RunPromptStart
    \/ RunPromptInput
    \/ RunCall
    \/ RunCallResult
    \/ RunAgain

Spec == Init /\ [][Next]_vars

----------------------------------------------------------------------------
(* Properties *)

\* the scoped block is over and __aexit__ ran
Exited == pc = "done" /\ exits > 0

\* C1: when the scoped use is over, every transport channel that was opened
\* has been closed exactly once, also when entering the protocol session
\* failed.
C1_OpenedChannelClosedOnce == pc = "done" => chanClose = chanOpen

\* C2: __aexit__ never raises; every call of it attempts the session close
\* first and the channel close second, and a failed session close does not
\* prevent the channel close; this includes a close that follows a failed
\* initialize().
C2_CloseNeverRaises ==
    Exited =>
        /\ exitRaised = "none"
        /\ Len(closeLog) = 2 * exits
        /\ \A k \in 1..exits :
              /\ closeLog[2 * k - 1].what = "session"
              /\ closeLog[2 * k].what = "channel"
        /\ chanClose = exits

C2_Witness ==
    /\ Exited
    /\ Len(sent) = 1
    /\ sent[1].op = "initialize"
    /\ lastErr = "InitializeError"
    /\ closeLog[1] = CloseEntry("session", "SessionCloseError")
    /\ closeLog[2].what = "channel"

\* C3: a failure of either close step is not re-raised and does not replace
\* or suppress the error of the body: the caller of the scoped block
\* receives the body's error.
C3_BodyErrorNotMasked ==
    Exited => outcome = bodyErr /\ outcome \notin {"SessionCloseError",
                                                   "ChannelCloseError"}

C3_Witness ==
    /\ Exited
    /\ bodyErr # "none"
    /\ outcome = bodyErr
    /\ closeLog = <<CloseEntry("session", "SessionCloseError"),
                    CloseEntry("channel", "ChannelCloseError")>>

\* C4: every tools/list and tools/call request was sent on a session whose
\* handshake had completed.
C4_NoRequestBeforeReady ==
    \A i \in 1..Len(sent) :
        sent[i].op \in {"tools/list", "tools/call"} => sent[i].ready

\* C5: with a transport other than "http" and "sse" the open fails with the
\* configuration error and neither a channel nor a session ever exists.
C5_UnknownTransportFailsFast ==
    transport \notin {"http", "sse"} =>
        /\ pc \in {"new", "done"}
        /\ pc = "done" => outcome = "ValueError"
        /\ ctx = "None" /\ session = "None"
        /\ chanOpen = 0 /\ sessEnter = 0
        /\ sent = <<>>

C5_Witness == transport = "ws" /\ pc = "done" /\ outcome = "ValueError"

\* C6: choose_tool on a non-empty list of N tools returns the k-th tool when
\* the trimmed input parses as an integer k with 1 <= k <= N and none for
\* every other input, without raising; on the empty list it returns none
\* without reading input (it succeeds even at end of input).
C6_ChooseTool ==
    (body = "unit" /\ rpc = "returned") =>
        IF tools = <<>>
        THEN chosen_tool = NoTool /\ lastErr = "none" /\ stdin_line = <<>>
        ELSE stdin_line # EOF =>
                LET k == PyInt(Strip(stdin_line))
                IN  /\ lastErr = "none"
                    /\ chosen_tool =
                         IF k.ok /\ k.val \in 1..Len(tools)
                         THEN tools[k.val] ELSE NoTool

C6_Witness ==
    /\ body = "unit"
    /\ rpc = "returned"
    /\ tools = <<Add, Flag, Ping>>
    /\ stdin_line = <<" ", "2", " ">>
    /\ chosen_tool = Flag

\* C7: in run(), a selection that yields none leads back to the selection:
\* no argument prompt, no request, no "call another tool?" and no end of
\* the loop.
C7_NoneReprompts ==
    [][(RunAt("select") /\ chosen_tool' = NoTool /\ lastErr' = "none") =>
          /\ rpc' = "select"
          /\ pc' = "body"
          /\ sent' = sent
          /\ inflight' = inflight
          /\ arguments' = arguments
          /\ propIdx' = propIdx]_vars

C7_Witness ==
    /\ RunAt("select")
    /\ Len(tools) = 3
    /\ Len(sent) = 2
    /\ stdin_line \in {<<"0">>, <<"a", "b", "c">>}
    /\ chosen_tool = NoTool

\* the property prompt_arguments_for_tool is asking for
CurrentProp == chosen_tool.props[propIdx]

\* the operator answered the prompt with text that is empty once trimmed
EmptyAnswer(line) == line # EOF /\ Strip(line) = <<>>

\* C8: empty input on a required property asks for the same property again
\* and stores nothing; prompt_arguments_for_tool does not get past a
\* required property, nor return, without a value for it.
C8_RequiredNeverSkipped ==
    [][RunAt("prompt") =>
          /\ (CurrentProp.name \in chosen_tool.required
                  /\ EmptyAnswer(stdin_line')) =>
                (rpc' = "prompt" /\ propIdx' = propIdx
                    /\ arguments' = arguments)
          /\ (CurrentProp.name \in chosen_tool.required
                  /\ (propIdx' # propIdx \/ rpc' = "call")) =>
                CurrentProp.name \in DOMAIN arguments'
          /\ rpc' = "call" =>
                \A i \in 1..Len(chosen_tool.props) :
                    chosen_tool.props[i].name \in chosen_tool.required =>
                        chosen_tool.props[i].name \in DOMAIN arguments']_vars

C8_Witness ==
    /\ RunAt("prompt")
    /\ chosen_tool = Flag
    /\ propIdx = 2
    /\ stdin_line = <<" ">>
    /\ "force" \notin DOMAIN arguments

\* C9: empty input on an optional property ends the prompt of that property
\* at once and the map has no key for it; a step on one property touches
\* no other key, so the returned map has no key for it either.
C9_OptionalEmptyOmitsKey ==
    [][RunAt("prompt") =>
          /\ (CurrentProp.name \notin chosen_tool.required
                  /\ EmptyAnswer(stdin_line')) =>
                /\ arguments' = arguments
                /\ CurrentProp.name \notin DOMAIN arguments'
                /\ \/ rpc' = "prompt" /\ propIdx' = propIdx + 1
                   \/ rpc' = "call" /\ propIdx = Len(chosen_tool.props)
          /\ DOMAIN arguments' \subseteq DOMAIN arguments \cup {CurrentProp.name}
          /\ \A k \in DOMAIN arguments : k # CurrentProp.name =>
                k \in DOMAIN arguments' /\ arguments'[k] = arguments[k]]_vars

C9_Witness ==
    /\ RunAt("call")
    /\ chosen_tool = Add
    /\ EmptyAnswer(stdin_line)
    /\ DOMAIN arguments = {"a"}

\* text that is a base-10 integer: an optional sign, then digits, where
\* single underscores may separate digits
IsIntegerText(v) ==
    LET from == IF v # <<>> /\ v[1] \in {"+", "-"} THEN 2 ELSE 1
    IN  /\ Len(v) >= from
        /\ \A i \in from..Len(v) : IsDigit(v[i]) \/ v[i] = "_"
        /\ IsDigit(v[from]) /\ IsDigit(v[Len(v)])
        /\ \A i \in from..(Len(v) - 1) : ~(v[i] = "_" /\ v[i + 1] = "_")

TruthyTexts == UNION {CaseVariants(tok) : tok \in TruthyTokens}
FalsyTexts == UNION {CaseVariants(tok) : tok \in FalsyTokens}

\* the prompt of the current property ended with this value stored
Stored(value) ==
    /\ arguments' = Put(arguments, CurrentProp.name, value)
    /\ \/ rpc' = "prompt" /\ propIdx' = propIdx + 1
       \/ rpc' = "call" /\ propIdx = Len(chosen_tool.props)

\* nothing was stored and the same property is asked again
Reprompted == arguments' = arguments /\ rpc' = "prompt" /\ propIdx' = propIdx

\* C10: on a boolean property every case variant of true, 1, yes, y stores
\* true and every case variant of false, 0, no, n stores false; any other
\* non-empty text stores nothing and the property is asked again; on an
\* integer property text that is not a base-10 integer stores nothing and
\* the property is asked again.
C10_BooleanAndIntegerParse ==
    [][(RunAt("prompt") /\ stdin_line' # EOF /\ Strip(stdin_line') # <<>>) =>
          LET v == Strip(stdin_line')
          IN  /\ CurrentProp.type = "boolean" =>
                    IF v \in TruthyTexts THEN Stored(BoolVal(TRUE))
                    ELSE IF v \in FalsyTexts THEN Stored(BoolVal(FALSE))
                    ELSE Reprompted
              /\ (CurrentProp.type = "integer" /\ ~IsIntegerText(v)) =>
                    Reprompted]_vars

C10_Witness ==
    /\ RunAt("prompt")
    /\ chosen_tool = Flag
    /\ propIdx = 1
    /\ stdin_line = <<"m", "a", "y", "b", "e">>
    /\ arguments = EmptyMap


\* the declared property names of a tool
PropNames(tool) == {tool.props[i].name : i \in 1..Len(tool.props)}

\* C11: the call request of an iteration carries the name of the tool
\* selected in it and exactly the map the prompter collected in it; the
\* map starts empty in every iteration, so it holds keys of the selected
\* tool's schema only.
C11_CallCarriesSelection ==
    [][/\ RunAt("args") => arguments' = EmptyMap
       /\ (RunAt("call") /\ sent' # sent) =>
            /\ inflight' = CallReq(chosen_tool.name, arguments)
            /\ \E i \in 1..Len(tools) : tools[i] = chosen_tool
            /\ DOMAIN arguments \subseteq PropNames(chosen_tool)
            /\ Len(sent') = Len(sent) + 1
            /\ sent'[Len(sent')].op = "tools/call"]_vars

C11_Witness ==
    /\ RunAt("calling")
    /\ tools = <<Echo>>
    /\ Len(sent) = 3
    /\ inflight = CallReq("echo", Put(EmptyMap, "msg", StrVal(<<"h", "i">>)))


\* C12: when the remote call reports failure the call method raises and
\* returns no result; in run() the failure ends the loop: no "call another
\* tool?" prompt, no further request, and run() returns normally, so the
\* caller of the scoped block receives no error.
C12_CallFailureEndsLoop ==
    [][/\ (RunAt("calling") /\ lastErr' = "CallError") =>
            /\ rpc' = "returned"
            /\ pc' = "body"
            /\ bodyErr' = "none"
            /\ sent' = sent
            /\ stdin_line' = stdin_line
       /\ (body = "api" /\ apc # "idle" /\ lastErr' = "CallError") =>
            lastResult' = NoResult
       /\ (body = "run" /\ rpc = "returned") =>
            (rpc' = "returned" /\ sent' = sent /\ stdin_line' = stdin_line)
       /\ (body = "run" /\ lastErr' = "CallError" /\ pc' = "done") =>
            outcome' = "none"]_vars

C12_Witness ==
    /\ body = "run"
    /\ pc = "done"
    /\ rpc = "returned"
    /\ lastErr = "CallError"
    /\ outcome = "none"


\* the positions of run() inside the try of its loop: selection, argument
\* prompting and invocation
InLoopBody == body = "run" /\ pc = "body"
                /\ rpc \in {"select", "args", "prompt", "call", "calling"}

\* C13: a failure raised inside the loop body of run() is logged as an
\* error with its cause and ends the loop: run() returns normally, after it
\* nothing is read, printed or sent, and the scoped block that follows
\* still closes the session and then the channel.
C13_LoopFailureStops ==
    [][/\ (InLoopBody /\ lastErr' # "none") =>
            /\ logged' = Log("ERROR", "Error during interactive tool call",
                             lastErr')
            /\ rpc' = "returned"
            /\ pc' = "body"
            /\ bodyErr' = "none"
            /\ sent' = sent
       /\ RunAt("returned") =>
            /\ pc' = "exiting"
            /\ bodyErr' = "none"
            /\ UNCHANGED <<rpc, sent, inflight, stdin_line, printed, lastErr>>
       /\ (body = "run" /\ pc = "exiting") =>
            /\ pc' = "done"
            /\ closeLog'[1].what = "session"
            /\ closeLog'[2].what = "channel"
            /\ chanClose' = chanOpen
            /\ exitRaised' = "none"
            /\ outcome' = bodyErr
            /\ UNCHANGED <<sent, stdin_line, printed>>]_vars

C13_Witness ==
    /\ body = "run"
    /\ Exited
    /\ lastErr = "EOFError"
    /\ bodyErr = "none"
    /\ outcome = "none"
    /\ Len(sent) = 2
    /\ closeLog = <<CloseEntry("session", "none"),
                    CloseEntry("channel", "none")>>


\* the answers that end the loop: every case variant of "n" and of "no",
\* and the empty text
StopAnswers == CaseVariants(<<"n">>) \cup CaseVariants(<<"n", "o">>) \cup {<<>>}

\* C14: run() asks "Call another tool?" after every completed invocation
\* and only then; a trimmed answer that is a case variant of "n" or "no",
\* or empty, ends the loop with no further selection or call, and any other
\* answer leads to the tool selection with the same listing.
C14_AnotherToolAnswer ==
    [][/\ (RunAt("calling") /\ lastErr' = "none") =>
            rpc' = "again" /\ pc' = "body"
       /\ (body = "run" /\ rpc # "again" /\ rpc' = "again") =>
            rpc = "calling" /\ lastErr' = "none"
       /\ (RunAt("again") /\ stdin_line' # EOF) =>
            /\ pc' = "body"
            /\ bodyErr' = "none"
            /\ UNCHANGED <<tools, sent, inflight>>
            /\ rpc' = IF Strip(stdin_line') \in StopAnswers
                      THEN "returned" ELSE "select"
       /\ RunAt("returned") =>
            UNCHANGED <<rpc, sent, inflight, stdin_line, chosen_tool>>]_vars

C14_Witness ==
    /\ RunAt("returned")
    /\ lastErr = "none"
    /\ Len(sent) = 3
    /\ stdin_line = <<"N", "O">>


\* C15: closing is idempotent: a call of __aexit__ on a client that is
\* already closed attempts no session close and no channel close and
\* leaves the client as the first close left it.
C15_CloseIdempotent ==
    [][(Exited /\ exits' > exits) =>
          UNCHANGED <<closeLog, chanClose, session, ctx, hs>>]_vars


\* C16: no request is sent on a client that has been closed: initialize,
\* list_tools, call_tool and call_tool_by_name called after the close send
\* nothing.
C16_NoRequestAfterClose == \A i \in 1..Len(sent) : ~sent[i].closed


\* run() ended because initialize() or list_tools() raised
StartFailure == RunAt("returned") /\ lastErr \in {"InitializeError", "ListError"}

\* C17: when the handshake or the listing fails at the start of run(), a
\* message has been printed on the console, the log holds an error record
\* with the cause, nothing was selected, prompted or called, and after a
\* failed handshake no listing request was sent.
C17_StartFailureReported ==
    StartFailure =>
        /\ printed # "none"
        /\ logged.level = "ERROR" /\ logged.cause = lastErr
        /\ chosen_tool = NoTool /\ stdin_line = <<>>
        /\ \A i \in 1..Len(sent) : sent[i].op # "tools/call"
        /\ lastErr = "InitializeError" => Len(sent) = 1


\* the request run() sends when its log holds n requests
RunRequest(n) == IF n = 0 THEN "initialize"
                 ELSE IF n = 1 THEN "tools/list" ELSE "tools/call"

\* C18: run() sends initialize first and once, then tools/list once on the
\* initialized session, and only tool calls after that; the loop is entered
\* only after both; on an empty listing it prints that no tools are
\* available and ends without selection, argument prompt or tool call.
C18_StartupOnceThenListing ==
    [][body = "run" =>
          /\ sent' # sent =>
                /\ Len(sent') = Len(sent) + 1
                /\ sent'[Len(sent')].op = RunRequest(Len(sent))
                /\ Len(sent) >= 1 => sent'[Len(sent')].ready
          /\ rpc' \in {"select", "args", "prompt", "call", "calling", "again"}
                => (Len(sent') >= 2 /\ tools' # <<>>)
          /\ (RunAt("list") /\ lastErr' = "none" /\ tools' = <<>>) =>
                /\ rpc' = "returned"
                /\ Len(sent') = 2
                /\ printed' = "No tools available."
                /\ stdin_line' = <<>> /\ chosen_tool' = NoTool
          /\ RunAt("returned") =>
                UNCHANGED <<rpc, sent, inflight, stdin_line, chosen_tool>>]_vars

C18_Witness ==
    /\ RunAt("returned")
    /\ tools = <<>>
    /\ lastErr = "none"
    /\ Len(sent) = 2
    /\ sent[1].op = "initialize" /\ sent[2].op = "tools/list"
    /\ printed = "No tools available."


\* C19: for a tool whose schema declares no properties, whatever its
\* required set, prompt_arguments_for_tool returns the empty map at once:
\* no prompt position is entered, so no input is read, and the call that
\* follows carries the empty map.
C19_NoPropertiesNoPrompt ==
    [][/\ (RunAt("args") /\ chosen_tool.props = <<>>) =>
            /\ rpc' = "call"
            /\ arguments' = EmptyMap
            /\ stdin_line' = <<>>
            /\ UNCHANGED <<lastErr, sent, chosen_tool>>
       /\ RunAt("prompt") => chosen_tool.props # <<>>
       /\ (RunAt("call") /\ chosen_tool.props = <<>> /\ sent' # sent) =>
            inflight' = CallReq(chosen_tool.name, EmptyMap)]_vars

C19_Witness ==
    /\ RunAt("call")
    /\ chosen_tool = Ping
    /\ Ping.required # {}
    /\ arguments = EmptyMap
    /\ stdin_line = <<>>
    /\ printed = "no schema provided"


\* text v is not a value of the declared type
InvalidEntry(type, v) ==
    /\ v # <<>>
    /\ \/ type = "boolean" /\ v \notin TruthyTexts \cup FalsyTexts
       \/ type = "integer" /\ ~IsIntegerText(v)

\* the kind of value a declared type stores
KindOf(type) == IF type = "boolean" THEN "bool"
                ELSE IF type = "integer" THEN "int" ELSE "str"

\* C20: an invalid entry makes the prompter ask the same property again
\* and nothing else: the prompt sequence goes on (no abort, no error),
\* the properties are asked in declared order and never a second time
\* once passed, the values collected for other properties stay as they
\* are, and whatever is stored is a value of the declared type.
C20_RetryLocalToProperty ==
    [][/\ (RunAt("args") /\ rpc' = "prompt") => propIdx' = 1
       /\ (RunAt("prompt") /\ stdin_line' # EOF) =>
            /\ InvalidEntry(CurrentProp.type, Strip(stdin_line')) =>
                  Reprompted /\ lastErr' = "none"
            /\ pc' = "body" /\ rpc' \in {"prompt", "call"}
            /\ chosen_tool' = chosen_tool
            /\ propIdx' \in {propIdx, propIdx + 1}
            /\ propIdx' <= Len(chosen_tool.props)
            /\ rpc' = "call" => propIdx = Len(chosen_tool.props)
            /\ \A k \in DOMAIN arguments : k # CurrentProp.name =>
                  k \in DOMAIN arguments' /\ arguments'[k] = arguments[k]
            /\ \A i \in 1..Len(chosen_tool.props) :
                  chosen_tool.props[i].name \in DOMAIN arguments' =>
                     /\ i <= propIdx
                     /\ arguments'[chosen_tool.props[i].name].kind
                           = KindOf(chosen_tool.props[i].type)]_vars

C20_Witness ==
    /\ RunAt("prompt")
    /\ chosen_tool = Add
    /\ propIdx = 2
    /\ arguments = Put(EmptyMap, "a", IntVal(12))
    /\ stdin_line = <<"1", ".", "5">>
    /\ printed = "ValueError message"


\* the names a schema lists as required without declaring them
Undeclared(tool) == tool.required \ PropNames(tool)

\* C21: when prompt_arguments_for_tool returns, the keys of its map are
\* declared property names and include every declared property that is
\* required; a name that is required but not declared is never the
\* property of a prompt and never a key of the map.
C21_ReturnedKeys ==
    [][body = "run" =>
          /\ (rpc # "call" /\ rpc' = "call") =>
                /\ DOMAIN arguments' \subseteq PropNames(chosen_tool')
                /\ chosen_tool'.required \cap PropNames(chosen_tool')
                      \subseteq DOMAIN arguments'
                /\ Undeclared(chosen_tool') \cap DOMAIN arguments' = {}
          /\ RunAt("prompt") =>
                /\ propIdx \in 1..Len(chosen_tool.props)
                /\ CurrentProp.name \notin Undeclared(chosen_tool)
                /\ DOMAIN arguments'
                      \subseteq DOMAIN arguments \cup {CurrentProp.name}]_vars

C21_Witness ==
    /\ RunAt("call")
    /\ chosen_tool = Add
    /\ Undeclared(Add) = {"ghost"}
    /\ DOMAIN arguments = {"a", "b"}
    /\ lastErr = "none"


\* C22: on the same client state, tool name, arguments and server answer,
\* call_tool and call_tool_by_name fail with the same error or send the
\* same single tools/call request and return the same value, the result
\* the server answered; what call_tool prints, its lossy rendering
\* included, is not what it returns, call_tool_by_name prints nothing, and
\* neither changes the session.
C22_CallVariantsEquivalent ==
    [][(pair'.called /\ pair' # pair) =>
          LET i == pair'.interactive
              n == pair'.by_name
          IN  /\ i.err = n.err
              /\ i.request = n.request
              /\ i.sent = n.sent
              /\ i.result = n.result
              /\ i.err = "none" =>
                    /\ i.result = pair'.resp.result
                    /\ i.request = CallReq(pair'.name, pair'.arguments)
                    /\ i.sent = Append(sent, Req("tools/call"))
              /\ i.err = "RuntimeError" => i.sent = sent /\ i.request = NoReq
              /\ n.console = <<>>
              /\ UNCHANGED <<session, ctx, hs>>]_vars

C22_Witness ==
    /\ pair.called
    /\ session = "set"
    /\ pair.resp = [ok |-> TRUE, result |-> <<"c", ":", "\\", "n">>]
    /\ pair.interactive.err = "none"
    /\ pair.interactive.result = <<"c", ":", "\\", "n">>
    /\ pair.interactive.console[3].text = <<"\"", "c", ":", "\n", "\"">>
    /\ pair.by_name.console = <<>>

====
